---- MODULE Spec2Model ----
(***************************************************************************)
(* Model of scripts/pipeline_status_display.py: the PipelineStatusDisplay  *)
(* status model (stages, agents, current stage), its public mutation       *)
(* operations and the quantities derived from it.                          *)
(*                                                                         *)
(* One caller drives the display; every action is one whole public         *)
(* operation, run from its first to its last statement.  The wall clock    *)
(* (datetime.now()) is the variable now, advanced by Tick.                 *)
(***************************************************************************)
EXTENDS Integers, Sequences, FiniteSets, TLC

\* ------------------------------------------------------------------ bounds
\* The wall clock runs over 0..MaxTime.
MaxTime == 1

\* ------------------------------------------------------------ Optional[T]
\* Python's None and a present value.  A datetime is always truthy, so
\* "not x" on an Optional[datetime] is "x is None".
None == <<>>
Some(v) == <<v>>
IsNone(x) == x = None
IsSome(x) == x # None
Val(x) == x[1]

\* Truthiness of an Optional[float]: None and 0.0 are both falsy.
TruthyFloat(x) == IsSome(x) /\ Val(x) # 0

\* ------------------------------------------------------------ AgentStatus
PENDING == "pending"
ACTIVE == "active"
COMPLETED == "completed"
FAILED == "failed"
WAITING == "waiting"
AgentStatus == {PENDING, ACTIVE, COMPLETED, FAILED, WAITING}
Terminal == {COMPLETED, FAILED}

\* ---------------------------------------------------------- STAGES_CONFIG
\* Stage keys in dictionary (insertion) order, and each stage's agents.
StageOrder == <<"routing", "intent", "planning", "development", "evaluation", "rollback">>
StageKeys == {StageOrder[i] : i \in 1..Len(StageOrder)}
STAGES_CONFIG ==
    [routing     |-> <<"router">>,
     intent      |-> <<"intent-cc", "intent-gpt5", "intent-merge-cc">>,
     planning    |-> <<"plan-cc", "plan-gpt5", "plan-merge-cc">>,
     development |-> <<"dev-cc">>,
     evaluation  |-> <<"eval-gpt5">>,
     rollback    |-> <<"rollback-cc">>]
AgentNames == UNION {{STAGES_CONFIG[k][i] : i \in 1..Len(STAGES_CONFIG[k])} : k \in StageKeys}

\* AgentInfo(name=agent_name): the dataclass defaults.
AgentInfo(name) ==
    [name |-> name, status |-> PENDING, start_time |-> None, end_time |-> None,
     duration |-> None, status_message |-> "", output_preview |-> ""]

\* PipelineStage(name, display_name) with its agents appended.
PipelineStage(key) ==
    [name |-> key, status |-> PENDING, start_time |-> None, end_time |-> None,
     agents |-> [i \in 1..Len(STAGES_CONFIG[key]) |-> AgentInfo(STAGES_CONFIG[key][i])]]

\* ------------------------------------------------------- inputs of callers
\* Names callers report on: declared ones and one that is not declared.
AgentInputs == {"intent-cc", "ghost"}
StageInputs == {"intent", "nostage"}
Messages == {"", "working"}
Previews == {"", "out"}
ErrorMessages == {"boom"}
Durations == {None, Some(0), Some(3)}

\* The modes a pipeline is started in.
Modes == {"pipeline", "pipeline-direct"}

\* Threads that call the display concurrently.
Threads == {"t1", "t2"}

VARIABLES
    stages,         \* self.stages: stage key -> PipelineStage
    current_stage,  \* self.current_stage: Optional[str]
    now,            \* the wall clock read by datetime.now()
    lastOp,         \* the public operation that ran last, with its arguments
    result,         \* what that operation gave its caller: "None" or the exception raised
    refreshed,      \* whether that operation redrew the display
    display,        \* PipelineStatusManager._display is not None
    start_time,     \* self.start_time of the display
    banner,         \* what pipeline_completed printed last: outcome and completion time
    mode,           \* the mode the display's start_pipeline was given, or None
    pc,             \* each thread's call in progress and its place in it
    lock,           \* self.display_lock: the thread that holds it, or None
    monitor         \* the PipelineMonitor: current_state, start_time, what it showed

run == <<display, start_time, banner, mode>>
threads == <<pc, lock>>
vars == <<stages, current_stage, now, lastOp, result, refreshed, run, threads, monitor>>
model == <<stages, current_stage>>

\* A thread that is in no call.
Idle == [at |-> "idle", op |-> "", target |-> ""]

\* ----------------------------------------------------------------- helpers
\* _find_agent: the first agent of that name, stages in order, agents in order;
\* the place <<stage key, index>> of the agent, or None.
RECURSIVE FindInStage(_, _, _, _)
FindInStage(stgs, key, i, agent_name) ==
    IF i > Len(stgs[key].agents) THEN None
    ELSE IF stgs[key].agents[i].name = agent_name THEN Some(<<key, i>>)
    ELSE FindInStage(stgs, key, i + 1, agent_name)

RECURSIVE FindFrom(_, _, _)
FindFrom(stgs, si, agent_name) ==
    IF si > Len(StageOrder) THEN None
    ELSE LET hit == FindInStage(stgs, StageOrder[si], 1, agent_name)
         IN  IF IsSome(hit) THEN hit ELSE FindFrom(stgs, si + 1, agent_name)

find_agent(stgs, agent_name) == FindFrom(stgs, 1, agent_name)

AgentAt(stgs, place) == stgs[Val(place)[1]].agents[Val(place)[2]]
WithAgent(stgs, place, agent) ==
    [stgs EXCEPT ![Val(place)[1]].agents[Val(place)[2]] = agent]

AgentWas(stgs, agent_name) ==
    LET place == find_agent(stgs, agent_name)
    IN  IF IsSome(place) THEN AgentAt(stgs, place).status ELSE ""
StageWas(stgs, stage_name) ==
    IF stage_name \in DOMAIN stgs THEN stgs[stage_name].status ELSE ""

\* AgentInfo.elapsed_time, read at clock t.
elapsed_time(agent, t) ==
    IF IsNone(agent.start_time) THEN None
    ELSE LET end == IF IsSome(agent.end_time) THEN Val(agent.end_time) ELSE t
         IN  Some(end - Val(agent.start_time))

\* set_agent_status stamping start_time at every ACTIVE report.
SetStatusOfAgent_restart(agent, status, status_message, output_preview, t) ==
    LET a1 == [agent EXCEPT !.status = status,
                            !.status_message = status_message,
                            !.output_preview = output_preview]
    IN  IF status = ACTIVE
        THEN [a1 EXCEPT !.start_time = Some(t)]
        ELSE IF status \in Terminal /\ IsNone(a1.end_time)
        THEN LET a2 == [a1 EXCEPT !.end_time = Some(t)]
             IN  [a2 EXCEPT !.duration = elapsed_time(a2, t)]
        ELSE a1

\* set_agent_status stamping end_time at every terminal report.
SetStatusOfAgent_restamp(agent, status, status_message, output_preview, t) ==
    LET a1 == [agent EXCEPT !.status = status,
                            !.status_message = status_message,
                            !.output_preview = output_preview]
    IN  IF status = ACTIVE /\ IsNone(a1.start_time)
        THEN [a1 EXCEPT !.start_time = Some(t)]
        ELSE IF status \in Terminal
        THEN LET a2 == [a1 EXCEPT !.end_time = Some(t)]
             IN  [a2 EXCEPT !.duration = elapsed_time(a2, t)]
        ELSE a1

\* The body of set_agent_status for a found agent, at clock t.
SetStatusOfAgent(agent, status, status_message, output_preview, t) ==
    LET a1 == [agent EXCEPT !.status = status,
                            !.status_message = status_message,
                            !.output_preview = output_preview]
    IN  IF status = ACTIVE /\ IsNone(a1.start_time)
        THEN [a1 EXCEPT !.start_time = Some(t)]
        ELSE IF status \in Terminal /\ IsNone(a1.end_time)
        THEN LET a2 == [a1 EXCEPT !.end_time = Some(t)]
             IN  [a2 EXCEPT !.duration = elapsed_time(a2, t)]
        ELSE a1

\* set_agent_status on the whole model: the stages after the call.
set_agent_status(stgs, agent_name, status, status_message, output_preview, t) ==
    LET place == find_agent(stgs, agent_name)
    IN  IF IsSome(place)
        THEN WithAgent(stgs, place,
                 SetStatusOfAgent(AgentAt(stgs, place), status, status_message, output_preview, t))
        ELSE stgs

\* update_stage passing a completed stage's status on to its agents.
SetStatusOfStage_cascade(stage, status, t) ==
    LET s1 == [stage EXCEPT !.status = status]
    IN  IF status = ACTIVE /\ IsNone(s1.start_time)
        THEN [s1 EXCEPT !.start_time = Some(t)]
        ELSE IF status = COMPLETED /\ IsNone(s1.end_time)
        THEN [s1 EXCEPT !.end_time = Some(t),
                        !.agents = [i \in DOMAIN @ |-> [@[i] EXCEPT !.status = COMPLETED]]]
        ELSE s1

\* The body of update_stage for a known stage, at clock t.
SetStatusOfStage(stage, status, t) ==
    LET s1 == [stage EXCEPT !.status = status]
    IN  IF status = ACTIVE /\ IsNone(s1.start_time)
        THEN [s1 EXCEPT !.start_time = Some(t)]
        ELSE IF status = COMPLETED /\ IsNone(s1.end_time)
        THEN [s1 EXCEPT !.end_time = Some(t)]
        ELSE s1

\* agent_completed's own write before it calls set_agent_status.
PresetDuration(stgs, agent_name, duration) ==
    LET place == find_agent(stgs, agent_name)
    IN  IF IsSome(place) /\ TruthyFloat(duration)
        THEN WithAgent(stgs, place, [AgentAt(stgs, place) EXCEPT !.duration = duration])
        ELSE stgs

\* _get_progress_bar: the agents of all stages, and those that are COMPLETED.
RECURSIVE Sum(_)
Sum(seq) == IF seq = <<>> THEN 0 ELSE Head(seq) + Sum(Tail(seq))
CompletedIn(stage) ==
    Cardinality({i \in DOMAIN stage.agents : stage.agents[i].status = COMPLETED})
total_agents(stgs) ==
    Sum([si \in 1..Len(StageOrder) |-> Len(stgs[StageOrder[si]].agents)])
completed_agents(stgs) ==
    Sum([si \in 1..Len(StageOrder) |-> CompletedIn(stgs[StageOrder[si]])])
\* The completion fraction completed/total as <<numerator, denominator>>,
\* 0 (as 0/1) when no agent is declared.
completion_fraction(stgs) ==
    IF total_agents(stgs) > 0 THEN <<completed_agents(stgs), total_agents(stgs)>> ELSE <<0, 1>>
FracLeq(a, b) == a[1] * b[2] <= b[1] * a[2]

\* Rational numbers <<numerator, denominator>>, denominator > 0, standing for
\* the floats of the progress arithmetic.
Rat(n, d) == <<n, d>>
RatEq(a, b) == a[1] * b[2] = b[1] * a[2]
RatLess(a, b) == a[1] * b[2] < b[1] * a[2]
RatSub(a, b) == <<a[1] * b[2] - b[1] * a[2], a[2] * b[2]>>
\* a / b, for b > 0
RatDiv(a, b) == <<a[1] * b[2], a[2] * b[1]>>
RatMax(a, b) == IF RatLess(a, b) THEN b ELSE a

\* progress_pct = (completed_agents / total_agents * 100) if total_agents > 0 else 0
progress_pct(stgs) ==
    IF total_agents(stgs) > 0
    THEN Rat(completed_agents(stgs) * 100, total_agents(stgs))
    ELSE Rat(0, 1)

\* The estimate dividing the elapsed time by the percentage itself.
remaining_time_pct(pct, elapsed) ==
    IF RatLess(Rat(0, 1), pct)
    THEN LET estimated_total == RatDiv(Rat(elapsed, 1), pct)
         IN  Some(RatMax(Rat(0, 1), RatSub(estimated_total, Rat(elapsed, 1))))
    ELSE None

\* _get_progress_bar, the remaining-time estimate: a number of seconds, or
\* None where the code shows "Calculating...".
remaining_time(pct, elapsed) ==
    IF RatLess(Rat(0, 1), pct)
    THEN LET estimated_total == RatDiv(Rat(elapsed, 1), RatDiv(pct, Rat(100, 1)))
         IN  Some(RatMax(Rat(0, 1), RatSub(estimated_total, Rat(elapsed, 1))))
    ELSE None

\* The bar: bar_length cells, filled_length = int(bar_length * progress_pct / 100)
\* of them filled, and "x" * n empty for n < 0.
bar_length == 40
IntOf(r) == r[1] \div r[2]
Times(n) == IF n < 0 THEN 0 ELSE n
filled_length(pct) == IntOf(Rat(bar_length * pct[1], pct[2] * 100))
progress_bar_cells(pct) ==
    [filled |-> Times(filled_length(pct)),
     unfilled |-> Times(bar_length - filled_length(pct))]

\* _get_progress_bar at clock t: what the progress lines show.
get_progress_bar(stgs, start, t) ==
    [progress_pct |-> progress_pct(stgs),
     bar          |-> progress_bar_cells(progress_pct(stgs)),
     elapsed      |-> t - start,
     remaining    |-> remaining_time(progress_pct(stgs), t - start)]

\* -------------------------------------------------------------- rendering
\* PipelineStage.elapsed_time subtracting without a test of start_time.
stage_elapsed_time_unguarded(stage, t) ==
    [raised |-> IsNone(stage.start_time),
     value  |-> IF IsNone(stage.start_time) THEN None
                ELSE Some((IF IsSome(stage.end_time) THEN Val(stage.end_time) ELSE t)
                          - Val(stage.start_time))]

\* PipelineStage.elapsed_time at clock t: None without a start_time; raised
\* tells whether the evaluation raises an exception.
stage_elapsed_time(stage, t) ==
    [raised |-> FALSE,
     value  |-> IF IsNone(stage.start_time) THEN None
                ELSE Some((IF IsSome(stage.end_time) THEN Val(stage.end_time) ELSE t)
                          - Val(stage.start_time))]

\* _get_header(mode): the title line and the start time.
get_header(m, start) ==
    [title   |-> IF m = "pipeline-direct"
                 THEN "PIPELINE MODE ACTIVATED (/pipeline command)"
                 ELSE "DEVELOPMENT PIPELINE",
     started |-> start]

\* _get_stage_overview: one indicator for each stage but "rollback".
NotRollback(k) == k # "rollback"
Indicator(status) ==
    IF status = COMPLETED THEN "[done]"
    ELSE IF status = ACTIVE THEN "[active]"
    ELSE IF status = FAILED THEN "[failed]"
    ELSE "[ ]"
get_stage_overview(stgs) ==
    LET keys == SelectSeq(StageOrder, NotRollback)
    IN  [i \in DOMAIN keys |-> [stage |-> keys[i], indicator |-> Indicator(stgs[keys[i]].status)]]

\* list(self.stages.keys()).index(key) + 1
IndexOf(key) == CHOOSE i \in DOMAIN StageOrder : StageOrder[i] = key

\* _get_stage_display, the heading "Stage N/M: name (elapsed)"; shown is
\* FALSE where the function returns "".
stage_heading(stgs, cur, t) ==
    IF IsNone(cur) \/ Val(cur) \notin DOMAIN stgs
    THEN [shown |-> FALSE, stage_num |-> 0, total_stages |-> 0, elapsed |-> None,
          raised |-> FALSE]
    ELSE [shown |-> TRUE,
          stage_num |-> IndexOf(Val(cur)),
          total_stages |-> Len(StageOrder) - 1,
          elapsed |-> stage_elapsed_time(stgs[Val(cur)], t).value,
          raised |-> stage_elapsed_time(stgs[Val(cur)], t).raised]

\* _get_stage_display: the lines of the current stage's agents, each with
\* its status text and the duration text shown when agent.duration is set.
get_stage_display(stgs, cur) ==
    IF IsNone(cur) \/ Val(cur) \notin DOMAIN stgs
    THEN <<>>
    ELSE LET agents == stgs[Val(cur)].agents
         IN  [i \in DOMAIN agents |->
                 [name |-> agents[i].name,
                  status_text |-> agents[i].status,
                  duration_text |-> IF TruthyFloat(agents[i].duration)
                                    THEN agents[i].duration ELSE None]]

\* _get_current_activity: the caption naming the first ACTIVE agent of the
\* current stage, with its status message; self.stages[self.current_stage]
\* raises KeyError for a current stage that is no stage.
get_current_activity(stgs, cur) ==
    IF IsNone(cur)
    THEN [raised |-> FALSE, caption |-> None]
    ELSE IF Val(cur) \notin DOMAIN stgs
    THEN [raised |-> TRUE, caption |-> None]
    ELSE LET agents == stgs[Val(cur)].agents
             active == {i \in DOMAIN agents : agents[i].status = ACTIVE}
         IN  IF active = {}
             THEN [raised |-> FALSE, caption |-> None]
             ELSE LET first == CHOOSE i \in active : \A j \in active : i <= j
                  IN  [raised |-> FALSE,
                       caption |-> Some([name |-> agents[first].name,
                                         message |-> agents[first].status_message])]

\* _refresh_display at clock t: the sections it prints, in order.
refresh_display(stgs, cur, start, t) ==
    [order |-> <<"header", "stage_display", "progress_bar", "current_activity">>,
     header |-> get_header("pipeline", start),
     heading |-> stage_heading(stgs, cur, t),
     stage_display |-> get_stage_display(stgs, cur),
     progress_bar |-> get_progress_bar(stgs, start, t),
     current_activity |-> get_current_activity(stgs, cur).caption,
     raised |-> stage_heading(stgs, cur, t).raised \/ get_current_activity(stgs, cur).raised]

\* start_pipeline(mode): the start-up screen.
start_screen(stgs, m, start) ==
    [order |-> <<"header", "stage_overview", "starting">>,
     header |-> get_header(m, start),
     stage_overview |-> get_stage_overview(stgs)]


\* ---------------------------------------------------------- PipelineMonitor
\* The longest completed_agents list a polled state file holds.
MaxListLen == 2
\* PipelineMonitor.STAGES declares the agents of STAGES_CONFIG.
MonitorSTAGES == STAGES_CONFIG
\* A parsed pipeline_state.json: the keys the monitor reads, None for a
\* missing key.  started_at holds the time its ISO string parses to.
\* current_agent is a dict of its own with the keys "agent" and "status".
StateDict(completed, status, started_at, current_agent) ==
    [completed_agents |-> completed, status |-> status, started_at |-> started_at,
     current_agent |-> current_agent]
EmptyDict == StateDict(None, None, None, None)
\* dict.get(key, default)
GetOr(x, default) == IF IsSome(x) THEN Val(x) ELSE default
\* PipelineMonitor.__init__
\* PipelineMonitor.__init__; file is pipeline_state.json as it lies in the
\* monitor's directory (None when there is none), at the place of
\* monitor_live: "idle" before it runs, then "running", "exited" or "stopped";
\* turn alternates with the iterations of the loop.
NewMonitor ==
    [current_state |-> EmptyDict, start_time |-> None, shown |-> None,
     file |-> None, at |-> "idle", turn |-> 0]

\* Names found in polled completed_agents lists, and the files polled.
ListedNames == {"router", "intent-cc", "ghost"}
Lists == UNION {[1..n -> ListedNames] : n \in 0..MaxListLen}
\* Lists that name one agent again and again, up to MaxRepeat times.
MaxRepeat == 11
RepeatedLists == {[i \in 1..n |-> "router"] : n \in 0..MaxRepeat}
StateFiles ==
    {None} \cup {Some(StateDict(c, s, a, None)) :
                    c \in {None} \cup {Some(l) : l \in Lists},
                    s \in {None, Some("completed")},
                    a \in {None, Some(0)}}
           \cup {Some(StateDict(Some(l), None, None, None)) : l \in RepeatedLists}

\* update_state: load the file when it exists; take the start time once.
update_state(m, file) ==
    IF IsSome(file)
    THEN LET cs == Val(file)
         IN  [m EXCEPT !.current_state = cs,
                       !.start_time = IF IsNone(m.start_time) /\ IsSome(cs.started_at)
                                      THEN cs.started_at ELSE m.start_time]
    ELSE m

InList(x, l) == \E i \in DOMAIN l : l[i] = x
\* is_agent_completed
is_agent_completed(m, agent) == InList(agent, GetOr(m.current_state.completed_agents, <<>>))
\* count_completed_agents
count_completed_agents(m) == Len(GetOr(m.current_state.completed_agents, <<>>))
\* count_stage_completed
count_stage_completed(m, stage_id) ==
    Cardinality({i \in DOMAIN MonitorSTAGES[stage_id] :
                    is_agent_completed(m, MonitorSTAGES[stage_id][i])})
\* display_stage_summary: completed/total of each stage.
display_stage_summary(m) ==
    [k \in StageKeys |-> <<count_stage_completed(m, k), Len(MonitorSTAGES[k])>>]
\* display_overall_progress: the bar, the percentage and "Agents Completed: c/t".
display_overall_progress(m) ==
    LET total == Sum([si \in 1..Len(StageOrder) |-> Len(MonitorSTAGES[StageOrder[si]])])
        completed == count_completed_agents(m)
        pct == IF total > 0 THEN Rat(completed * 100, total) ELSE Rat(0, 1)
    IN  [completed_agents |-> completed,
         total_agents |-> total,
         progress_pct |-> pct,
         bar |-> progress_bar_cells(pct)]

\* get_current_agent
get_current_agent(m) == m.current_state.current_agent
\* Truthiness of a dict: the empty dict is falsy.
TruthyDict(d) == IsSome(d) /\ (IsSome(Val(d).agent) \/ IsSome(Val(d).status))
\* display_current_activity: current['agent'] raises KeyError for a
\* current_agent that has no key "agent".
display_current_activity(m) ==
    LET current == get_current_agent(m)
    IN  IF ~TruthyDict(current)
        THEN [raised |-> FALSE, activity |-> None]
        ELSE IF IsNone(Val(current).agent)
        THEN [raised |-> TRUE, activity |-> None]
        ELSE [raised |-> FALSE,
              activity |-> Some([agent |-> Val(Val(current).agent),
                                 status |-> Val(current).status])]
\* is_pipeline_complete
is_pipeline_complete(m) == m.current_state.status = Some("completed")

\* The display calls of main() and of one iteration of monitor_live, in
\* order: stage summary, current activity, overall progress; an exception
\* in one leaves the later ones unprinted.
display_all(m) ==
    IF display_current_activity(m).raised
    THEN [raised |-> TRUE,
          stage_summary |-> display_stage_summary(m),
          activity |-> None,
          overall |-> None]
    ELSE [raised |-> FALSE,
          stage_summary |-> display_stage_summary(m),
          activity |-> display_current_activity(m).activity,
          overall |-> display_overall_progress(m)]

\* lastOp: the operation, the name it was given, and the status the named
\* agent or stage had when it was called ("" when there is none of that name).
Op(op, target, was) == [op |-> op, target |-> target, was |-> was]

\* ------------------------------------------------------------------- Init
\* PipelineStatusDisplay.__init__
Init ==
    /\ stages = [k \in StageKeys |-> PipelineStage(k)]
    /\ current_stage = None
    /\ now = 0
    /\ lastOp = Op("init", "", "")
    /\ result = "None"
    /\ refreshed = FALSE
    /\ display = TRUE
    /\ start_time = now
    /\ banner = None
    /\ mode = None
    /\ pc = [t \in Threads |-> Idle]
    /\ lock = None
    /\ monitor = NewMonitor

\* ---------------------------------------------------------------- actions
\* Time passes.
Tick ==
    /\ now < MaxTime
    /\ now' = now + 1
    /\ lastOp' = Op("tick", "", "")
    /\ result' = "None"
    /\ refreshed' = FALSE
    /\ UNCHANGED model
    /\ UNCHANGED <<run, threads, monitor>>

\* update_stage setting current_stage outside its membership test.
UpdateStage_current(stage_name, status) ==
    /\ lastOp' = Op("update_stage", stage_name, StageWas(stages, stage_name))
    /\ result' = "None"
    /\ IF stage_name \in DOMAIN stages
       THEN /\ stages' = [stages EXCEPT ![stage_name] = SetStatusOfStage(@, status, now)]
            /\ refreshed' = TRUE
       ELSE /\ UNCHANGED stages
            /\ refreshed' = FALSE
    /\ current_stage' = Some(stage_name)
    /\ UNCHANGED now
    /\ UNCHANGED <<run, threads, monitor>>

\* update_stage(stage_name, status)
UpdateStage(stage_name, status) ==
    /\ lastOp' = Op("update_stage", stage_name, StageWas(stages, stage_name))
    /\ result' = "None"
    /\ IF stage_name \in DOMAIN stages
       THEN /\ stages' = [stages EXCEPT ![stage_name] = SetStatusOfStage(@, status, now)]
            /\ current_stage' = Some(stage_name)
            /\ refreshed' = TRUE
       ELSE /\ UNCHANGED model
            /\ refreshed' = FALSE
    /\ UNCHANGED now
    /\ UNCHANGED <<run, threads, monitor>>

\* set_agent_status(agent_name, status, status_message, output_preview)
SetAgentStatus(agent_name, status, status_message, output_preview) ==
    /\ lastOp' = Op("set_agent_status", agent_name, AgentWas(stages, agent_name))
    /\ result' = "None"
    /\ stages' = set_agent_status(stages, agent_name, status, status_message, output_preview, now)
    /\ refreshed' = IsSome(find_agent(stages, agent_name))
    /\ UNCHANGED <<current_stage, now>>
    /\ UNCHANGED <<run, threads, monitor>>

\* agent_started(agent_name, status_message)
AgentStarted(agent_name, status_message) ==
    /\ lastOp' = Op("agent_started", agent_name, AgentWas(stages, agent_name))
    /\ result' = "None"
    /\ stages' = set_agent_status(stages, agent_name, ACTIVE, status_message, "", now)
    /\ refreshed' = IsSome(find_agent(stages, agent_name))
    /\ UNCHANGED <<current_stage, now>>
    /\ UNCHANGED <<run, threads, monitor>>

\* agent_completed(agent_name, duration, output_preview)
AgentCompleted(agent_name, duration, output_preview) ==
    /\ lastOp' = Op("agent_completed", agent_name, AgentWas(stages, agent_name))
    /\ result' = "None"
    /\ stages' = set_agent_status(PresetDuration(stages, agent_name, duration), agent_name,
                                  COMPLETED, "Completed successfully", output_preview, now)
    /\ refreshed' = IsSome(find_agent(stages, agent_name))
    /\ UNCHANGED <<current_stage, now>>
    /\ UNCHANGED <<run, threads, monitor>>

\* agent_failed(agent_name, error_message)
AgentFailed(agent_name, error_message) ==
    /\ lastOp' = Op("agent_failed", agent_name, AgentWas(stages, agent_name))
    /\ result' = "None"
    /\ stages' = set_agent_status(stages, agent_name, FAILED, "Error: " \o error_message, "", now)
    /\ refreshed' = IsSome(find_agent(stages, agent_name))
    /\ UNCHANGED <<current_stage, now>>
    /\ UNCHANGED <<run, threads, monitor>>

Next ==
    \/ Tick
    \/ \E n \in AgentInputs, s \in AgentStatus, m \in Messages, p \in Previews :
          SetAgentStatus(n, s, m, p)
    \/ \E n \in AgentInputs, m \in Messages : AgentStarted(n, m)
    \/ \E n \in AgentInputs, d \in Durations, p \in Previews : AgentCompleted(n, d, p)
    \/ \E n \in AgentInputs, e \in ErrorMessages : AgentFailed(n, e)

Spec == Init /\ [][Next]_vars

\* A whole run: stage and agent reports together, from callers that use the
\* convenience operations, and set_agent_status to report an agent active
\* with a message and a preview.
NextRun ==
    \/ Tick
    \/ \E k \in StageInputs, s \in AgentStatus : UpdateStage(k, s)
    \/ \E n \in AgentInputs : SetAgentStatus(n, ACTIVE, "working", "out")
    \/ \E n \in AgentInputs, m \in Messages : AgentStarted(n, m)
    \/ \E n \in AgentInputs : AgentCompleted(n, None, "")
    \/ \E n \in AgentInputs : AgentFailed(n, "boom")

SpecRun == Init /\ [][NextRun]_vars

\* The progress lines over every set of completed agents: the display after
\* some agents were each reported once at time 0 (completed, or failed, or
\* not at all), then redrawn by update_stage as time passes.
ReportedOnce(name, status) ==
    IF status = PENDING THEN AgentInfo(name)
    ELSE SetStatusOfAgent(AgentInfo(name), status,
                          IF status = FAILED THEN "Error: boom" ELSE "Completed successfully",
                          "", 0)

InitProgress ==
    /\ \E done \in SUBSET AgentNames, other \in {PENDING, FAILED} :
          stages = [k \in StageKeys |->
                      [PipelineStage(k) EXCEPT !.agents =
                          [i \in 1..Len(STAGES_CONFIG[k]) |->
                              ReportedOnce(STAGES_CONFIG[k][i],
                                  IF STAGES_CONFIG[k][i] \in done THEN COMPLETED ELSE other)]]]
    /\ current_stage = None
    /\ now = 0
    /\ lastOp = Op("init", "", "")
    /\ result = "None"
    /\ refreshed = FALSE
    /\ display = TRUE
    /\ start_time = now
    /\ banner = None
    /\ mode = None
    /\ pc = [t \in Threads |-> Idle]
    /\ lock = None
    /\ monitor = NewMonitor

NextProgress ==
    \/ Tick
    \/ UpdateStage("intent", ACTIVE)

SpecProgress == InitProgress /\ [][NextProgress]_vars

\* ------------------------------------------------- what the screen shows
\* A stage that is reported active or waiting, and an agent of it that
\* waits, starts and completes with an explicit duration.
ViewStatuses == {ACTIVE, WAITING}
ExplicitDuration == Some(3)
NextView ==
    \/ Tick
    \/ \E s \in ViewStatuses : UpdateStage("intent", s)
    \/ SetAgentStatus("intent-cc", WAITING, "", "")
    \/ AgentStarted("intent-cc", "working")
    \/ AgentCompleted("intent-cc", ExplicitDuration, "")

SpecView == Init /\ [][NextView]_vars

\* Stage reports alone, on the first and the last declared stage and on a
\* name that is no stage.
StageReports == {"intent", "rollback", "nostage"}
NextStages ==
    \/ Tick
    \/ \E k \in StageReports, s \in AgentStatus : UpdateStage(k, s)

SpecStages == Init /\ [][NextStages]_vars

\* ---------------------------------------------------- the monitor's actions
\* main() with --once: a new monitor polls the state file as it is on disk
\* and shows the stage summary and the overall progress.
MonitorOnce(file) ==
    /\ LET m == update_state(NewMonitor, file)
       IN  monitor' = [m EXCEPT !.shown = Some(display_all(m))]
    /\ UNCHANGED <<stages, current_stage, now, lastOp, result, refreshed, run, threads>>

NextMonitor ==
    \/ Tick
    \/ \E file \in StateFiles : MonitorOnce(file)

SpecMonitor == Init /\ [][NextMonitor]_vars

\* ------------------------------------------------------------ monitor_live
\* What the pipeline writes to pipeline_state.json while it is watched.
LiveStatuses == {None, Some("running"), Some("completed"), Some("failed")}
CurrentAgents ==
    {None,
     Some([agent |-> Some("dev-cc"), status |-> Some("working")]),
     Some([agent |-> None, status |-> Some("working")])}
LiveFiles ==
    {Some(StateDict(c, s, None, a)) :
        c \in {None, Some(<<"router">>)}, s \in LiveStatuses, a \in CurrentAgents}

\* monitor_live called on a new monitor, no state file written yet.
InitLive ==
    /\ stages = [k \in StageKeys |-> PipelineStage(k)]
    /\ current_stage = None
    /\ now = 0
    /\ lastOp = Op("init", "", "")
    /\ result = "None"
    /\ refreshed = FALSE
    /\ display = TRUE
    /\ start_time = now
    /\ banner = None
    /\ mode = None
    /\ pc = [t \in Threads |-> Idle]
    /\ lock = None
    /\ monitor = [NewMonitor EXCEPT !.at = "running"]

\* The pipeline writes its state file.
WriteStateFile(file) ==
    /\ monitor' = [monitor EXCEPT !.file = file]
    /\ lastOp' = Op("write_state_file", "", "")
    /\ UNCHANGED <<model, now, result, refreshed, run, threads>>

\* One iteration of the loop of monitor_live: update_state, the display
\* calls, then break when is_pipeline_complete(), else sleep; an Exception
\* in the iteration is printed and the loop sleeps and goes on.
MonitorIterate ==
    /\ monitor.at = "running"
    /\ LET m == update_state(monitor, monitor.file)
           r == display_all(m)
       IN  monitor' = [m EXCEPT !.shown = Some(r),
                                !.turn = 1 - m.turn,
                                !.at = IF ~r.raised /\ is_pipeline_complete(m)
                                       THEN "exited" ELSE "running"]
    /\ lastOp' = Op("monitor_live", "", "")
    /\ UNCHANGED <<model, now, result, refreshed, run, threads>>

\* KeyboardInterrupt: "Monitoring stopped by user."
MonitorInterrupt ==
    /\ monitor.at = "running"
    /\ monitor' = [monitor EXCEPT !.at = "stopped"]
    /\ lastOp' = Op("interrupt", "", "")
    /\ UNCHANGED <<model, now, result, refreshed, run, threads>>

NextLive ==
    \/ \E file \in LiveFiles : WriteStateFile(file)
    \/ MonitorIterate
    \/ MonitorInterrupt

SpecLive == InitLive /\ [][NextLive]_vars

\* The loop keeps running: while it has not ended, its next iteration is taken.
SpecLiveFair == SpecLive /\ WF_vars(MonitorIterate)

\* ------------------------------------------- PipelineStatusManager's actions
\* The module as loaded: PipelineStatusManager._display is None.  The model
\* of a display that is not there is the one a new display would start from.
InitManager ==
    /\ stages = [k \in StageKeys |-> PipelineStage(k)]
    /\ current_stage = None
    /\ now = 0
    /\ lastOp = Op("init", "", "")
    /\ result = "None"
    /\ refreshed = FALSE
    /\ display = FALSE
    /\ start_time = now
    /\ banner = None
    /\ mode = None
    /\ pc = [t \in Threads |-> Idle]
    /\ lock = None
    /\ monitor = NewMonitor

\* start_pipeline_display(request, mode): PipelineStatusManager.start_pipeline
\* constructs a display, stores it as _display, prints its header, returns it.
StartPipelineDisplay(m) ==
    /\ lastOp' = Op("start_pipeline_display", "", IF display THEN "display" ELSE "")
    /\ stages' = [k \in StageKeys |-> PipelineStage(k)]
    /\ current_stage' = None
    /\ display' = TRUE
    /\ start_time' = now
    /\ banner' = None
    /\ mode' = Some(m)
    /\ result' = "display"
    /\ refreshed' = FALSE
    /\ UNCHANGED <<now, threads, monitor>>

\* PipelineStatusManager.clear_display()
ClearDisplay ==
    /\ lastOp' = Op("clear_display", "", IF display THEN "display" ELSE "")
    /\ display' = FALSE
    /\ result' = "None"
    /\ refreshed' = FALSE
    /\ UNCHANGED <<model, now, start_time, banner, mode, threads, monitor>>

\* str.lower() on the status strings callers pass.
StatusInputs == {"active", "FAILED", "done"}
Lower(s) == IF s = "FAILED" THEN "failed" ELSE s

\* update_agent_status(agent_name, status, message)
UpdateAgentStatus(agent_name, status, message) ==
    /\ lastOp' = Op("update_agent_status", agent_name, AgentWas(stages, agent_name))
    /\ IF display
       THEN IF Lower(status) \in AgentStatus
            THEN /\ stages' = set_agent_status(stages, agent_name, Lower(status), message, "", now)
                 /\ result' = "None"
                 /\ refreshed' = IsSome(find_agent(stages, agent_name))
            ELSE /\ result' = "ValueError"
                 /\ refreshed' = FALSE
                 /\ UNCHANGED stages
       ELSE /\ result' = "None"
            /\ refreshed' = FALSE
            /\ UNCHANGED stages
    /\ UNCHANGED <<current_stage, now, run, threads, monitor>>

\* pipeline_completed(success, summary): prints the outcome, the total
\* duration and the completion time; banner is what it printed.
PipelineCompleted(success) ==
    /\ lastOp' = Op("pipeline_completed", "", "")
    /\ banner' = Some([success |-> success,
                       completed |-> now,
                       total_duration |-> now - start_time])
    /\ result' = "None"
    /\ refreshed' = FALSE
    /\ UNCHANGED <<model, now, display, start_time, mode, threads, monitor>>

\* Callers that reach the display through the manager.
NextManager ==
    \/ Tick
    \/ \E m \in Modes : StartPipelineDisplay(m)
    \/ ClearDisplay
    \/ \E s \in StatusInputs, m \in Messages : UpdateAgentStatus("intent-cc", s, m)
    \/ display /\ AgentStarted("intent-cc", "working")
    \/ \E success \in BOOLEAN : display /\ PipelineCompleted(success)

SpecManager == InitManager /\ [][NextManager]_vars

\* ------------------------------------------------ threads calling the display
\* The operations that only print, inside `with self.display_lock`.
PrintOps == {"start_pipeline", "display_user_confirmation", "pipeline_completed",
             "display_error"}
\* What the threads call: agent_completed(name, 3.0), update_stage(key, ACTIVE)
\* and the printing operations.
ThreadDuration == Some(3)
ThreadCalls ==
    {<<"agent_completed", n>> : n \in AgentInputs}
        \cup {<<"update_stage", k>> : k \in StageInputs}
        \cup {<<op, "">> : op \in PrintOps}

Goto(t, at) == pc' = [pc EXCEPT ![t].at = at]

\* Thread t enters a public operation.
Call(t, op, target) ==
    /\ pc[t] = Idle
    /\ pc' = [pc EXCEPT ![t] = [at |-> IF op = "agent_completed" THEN "preset" ELSE "acquire",
                                op |-> op, target |-> target]]
    /\ UNCHANGED <<model, now, lastOp, result, refreshed, run, lock, monitor>>

\* agent_completed, lines 176-178: find the agent and write its duration,
\* before set_agent_status is called and its lock taken.
Preset(t) ==
    /\ pc[t].at = "preset"
    /\ stages' = PresetDuration(stages, pc[t].target, ThreadDuration)
    /\ Goto(t, "acquire")
    /\ UNCHANGED <<current_stage, now, lastOp, result, refreshed, run, lock, monitor>>

\* `with self.display_lock:` entered: threading.Lock.acquire blocks while
\* any thread, the caller included, holds the lock.
Acquire(t) ==
    /\ pc[t].at = "acquire"
    /\ lock = None
    /\ lock' = Some(t)
    /\ Goto(t, IF pc[t].op \in PrintOps THEN "print" ELSE "body")
    /\ UNCHANGED <<model, now, lastOp, result, refreshed, run, monitor>>

\* The writes of update_stage (lines 140-148) and of set_agent_status as
\* agent_completed calls it (lines 155-166); a redraw follows when the name
\* was found.
Body(t) ==
    /\ pc[t].at = "body"
    /\ IF pc[t].op = "update_stage"
       THEN IF pc[t].target \in DOMAIN stages
            THEN /\ stages' = [stages EXCEPT ![pc[t].target] = SetStatusOfStage(@, ACTIVE, now)]
                 /\ current_stage' = Some(pc[t].target)
                 /\ Goto(t, "refresh")
            ELSE /\ UNCHANGED model
                 /\ Goto(t, "release")
       ELSE /\ stages' = set_agent_status(stages, pc[t].target, COMPLETED,
                                          "Completed successfully", "", now)
            /\ UNCHANGED current_stage
            /\ Goto(t, IF IsSome(find_agent(stages, pc[t].target)) THEN "refresh" ELSE "release")
    /\ UNCHANGED <<now, lastOp, result, refreshed, run, lock, monitor>>

\* _refresh_display called with the lock waiting for itself.
Refresh_reacquire(t) ==
    /\ pc[t].at = "refresh"
    /\ lock = None
    /\ Goto(t, "release")
    /\ UNCHANGED <<model, now, lastOp, result, refreshed, run, lock, monitor>>

\* _refresh_display, called inside the with-block: clears the screen and
\* prints header, stage display, progress bar and current activity.
Refresh(t) ==
    /\ pc[t].at = "refresh"
    /\ Goto(t, "release")
    /\ UNCHANGED <<model, now, lastOp, result, refreshed, run, lock, monitor>>

\* The print calls of a printing operation, inside its with-block.
PrintOut(t) ==
    /\ pc[t].at = "print"
    /\ banner' = IF pc[t].op = "pipeline_completed"
                 THEN Some([success |-> TRUE, completed |-> now,
                            total_duration |-> now - start_time])
                 ELSE banner
    /\ Goto(t, "release")
    /\ UNCHANGED <<model, now, lastOp, result, refreshed, display, start_time, mode, lock, monitor>>

\* The with-block left: the lock released, the operation returns.
Release(t) ==
    /\ pc[t].at = "release"
    /\ lock' = None
    /\ pc' = [pc EXCEPT ![t] = Idle]
    /\ UNCHANGED <<model, now, lastOp, result, refreshed, run, monitor>>

\* One step of thread t inside an operation.
ThreadStep(t) ==
    \/ Preset(t)
    \/ Body(t)
    \/ Refresh(t)
    \/ PrintOut(t)
    \/ Release(t)

NextThreads ==
    \E t \in Threads :
        \/ \E c \in ThreadCalls : Call(t, c[1], c[2])
        \/ Acquire(t)
        \/ ThreadStep(t)

SpecThreads == Init /\ [][NextThreads]_vars

\* Fair scheduling: a thread inside an operation keeps running, and a thread
\* waiting for the lock gets it if the lock keeps becoming free.
SpecThreadsFair ==
    /\ SpecThreads
    /\ \A t \in Threads : WF_vars(ThreadStep(t)) /\ SF_vars(Acquire(t))

\* ------------------------------------------------------------ vocabulary
AgentOps == {"set_agent_status", "agent_started", "agent_completed", "agent_failed"}
\* The declared agent of that name.
AgentOf(stgs, agent_name) == AgentAt(stgs, find_agent(stgs, agent_name))
\* The call named an agent that is not declared, or a stage key that is unknown.
UnknownCall(op) ==
    \/ op.op \in AgentOps /\ op.target \notin AgentNames
    \/ op.op = "update_stage" /\ op.target \notin StageKeys
\* The call was an agent operation on the declared agent n.
AgentCall(op, n) == op.op \in AgentOps /\ op.target = n

\* ----------------------------------------------------------------- claims

\* C1: an operation that names an undeclared agent or an unknown stage key
\* gives its caller a NotFound failure.
C1_NotFoundSurfaced == UnknownCall(lastOp) => result = "NotFound"

\* C2: an operation that names an undeclared agent or an unknown stage key
\* leaves every stage, every agent and current_stage as they were.
C2_UnknownNameLeavesModel == [][UnknownCall(lastOp') => model' = model]_vars

\* agent_completed was called for an undeclared name while an agent was
\* active and a stage was current.
C2_Witness ==
    /\ lastOp = Op("agent_completed", "ghost", "")
    /\ current_stage = Some("intent")
    /\ stages["intent"].status = ACTIVE
    /\ AgentOf(stages, "intent-cc").status = ACTIVE

\* C3: an agent or a stage that is COMPLETED or FAILED keeps that status in
\* every later step.
C3_TerminalAbsorbing ==
    [][/\ \A n \in AgentNames :
             AgentOf(stages, n).status \in Terminal
                 => AgentOf(stages', n).status = AgentOf(stages, n).status
       /\ \A k \in StageKeys :
             stages[k].status \in Terminal => stages'[k].status = stages[k].status]_vars

\* C4: agent_failed on a COMPLETED agent, and agent_completed on a FAILED
\* agent, return AlreadyTerminal and leave the model unchanged.
C4_AlreadyTerminal ==
    [][\A n \in AgentNames :
          (\/ lastOp' = Op("agent_failed", n, COMPLETED)
           \/ lastOp' = Op("agent_completed", n, FAILED))
              => result' = "AlreadyTerminal" /\ model' = model]_vars

\* C5: agent_completed on an agent that is already COMPLETED leaves it
\* COMPLETED, with the end_time it had.
C5_CompletedIdempotent ==
    [][\A n \in AgentNames :
          (/\ AgentOf(stages, n).status = COMPLETED
           /\ lastOp'.op = "agent_completed" /\ lastOp'.target = n)
              => /\ AgentOf(stages', n).status = COMPLETED
                 /\ IsSome(AgentOf(stages', n).end_time)
                 /\ AgentOf(stages', n).end_time = AgentOf(stages, n).end_time]_vars

\* agent_completed ran again, at a later time, on an agent completed at time 0.
C5_Witness ==
    /\ lastOp = Op("agent_completed", "intent-cc", COMPLETED)
    /\ AgentOf(stages, "intent-cc").status = COMPLETED
    /\ AgentOf(stages, "intent-cc").end_time = Some(0)
    /\ now = 1

\* The call reported the declared agent n as ACTIVE (agent_started, or
\* set_agent_status with ACTIVE), or the stage k as ACTIVE.
AgentStartCall(n) == AgentCall(lastOp', n) /\ AgentOf(stages', n).status = ACTIVE
StageStartCall(k) ==
    lastOp'.op = "update_stage" /\ lastOp'.target = k /\ stages'[k].status = ACTIVE
\* The entity had never been active: not ACTIVE, and no start_time.
NeverActive(e) == e.status # ACTIVE /\ IsNone(e.start_time)
\* The agent with its status message, or its message and preview, blanked.
SaveMessage(a) == [a EXCEPT !.status_message = ""]
SaveMessageAndPreview(a) == [a EXCEPT !.status_message = "", !.output_preview = ""]

\* C6 (as stated): the first start of an agent or stage records start_time; a
\* start call for an entity that is already ACTIVE changes its status message
\* and no other field.
C6_SecondStartOnlyMessage ==
    [][/\ \A n \in AgentNames :
             AgentStartCall(n)
                 => /\ NeverActive(AgentOf(stages, n))
                          => AgentOf(stages', n).start_time = Some(now)
                    /\ AgentOf(stages, n).status = ACTIVE
                          => SaveMessage(AgentOf(stages', n)) = SaveMessage(AgentOf(stages, n))
       /\ \A k \in StageKeys :
             StageStartCall(k)
                 => /\ NeverActive(stages[k]) => stages'[k].start_time = Some(now)
                    /\ stages[k].status = ACTIVE => stages'[k] = stages[k]]_vars

\* C6 (amended): the first start of an agent or stage records start_time; a
\* start call for an entity that is already ACTIVE leaves its status,
\* start_time, end_time and duration unchanged; on an agent it overwrites the
\* status message and the output preview, which agent_started sets to "".
C6_SecondStartKeepsTimes ==
    [][/\ \A n \in AgentNames :
             AgentStartCall(n)
                 => /\ NeverActive(AgentOf(stages, n))
                          => AgentOf(stages', n).start_time = Some(now)
                    /\ AgentOf(stages, n).status = ACTIVE
                          => /\ SaveMessageAndPreview(AgentOf(stages', n))
                                    = SaveMessageAndPreview(AgentOf(stages, n))
                             /\ lastOp'.op = "agent_started"
                                    => AgentOf(stages', n).output_preview = ""
       /\ \A k \in StageKeys :
             StageStartCall(k)
                 => /\ NeverActive(stages[k]) => stages'[k].start_time = Some(now)
                    /\ stages[k].status = ACTIVE => stages'[k] = stages[k]]_vars

\* agent_started ran at time 1 on an agent that was active since time 0.
C6_Witness ==
    /\ lastOp = Op("agent_started", "intent-cc", ACTIVE)
    /\ AgentOf(stages, "intent-cc").start_time = Some(0)
    /\ AgentOf(stages, "intent-cc").status_message = "working"
    /\ now = 1

\* C7: every agent with start_time and end_time both set has
\* end_time >= start_time.
C7_EndNotBeforeStart ==
    \A n \in AgentNames :
        LET a == AgentOf(stages, n)
        IN  IsSome(a.start_time) /\ IsSome(a.end_time)
                => Val(a.end_time) >= Val(a.start_time)

\* C8: every agent with end_time set has duration = end_time - start_time,
\* and no step changes the duration of an agent whose end_time is set.
C8_DurationIsEndMinusStart ==
    /\ [](\A n \in AgentNames :
            LET a == AgentOf(stages, n)
            IN  IsSome(a.end_time)
                    => /\ IsSome(a.start_time)
                       /\ a.duration = Some(Val(a.end_time) - Val(a.start_time)))
    /\ [][\A n \in AgentNames :
            IsSome(AgentOf(stages, n).end_time)
                => AgentOf(stages', n).duration = AgentOf(stages, n).duration]_vars

\* C9: a call that moves an agent with no start_time straight to COMPLETED
\* or FAILED records end_time, sets start_time to end_time and duration to 0.
C9_BackfillStart ==
    [][\A n \in AgentNames :
          (/\ AgentCall(lastOp', n)
           /\ IsNone(AgentOf(stages, n).start_time)
           /\ AgentOf(stages, n).status \notin Terminal
           /\ AgentOf(stages', n).status \in Terminal)
              => /\ AgentOf(stages', n).end_time = Some(now)
                 /\ AgentOf(stages', n).start_time = AgentOf(stages', n).end_time
                 /\ AgentOf(stages', n).duration = Some(0)]_vars

\* C10: the completion fraction never decreases from one state to the next.
C10_FractionMonotone ==
    [][FracLeq(completion_fraction(stages), completion_fraction(stages'))]_vars

\* The declared agents that are COMPLETED, counted by name.
CompletedNames == {n \in AgentNames : AgentOf(stages, n).status = COMPLETED}
NumCompleted == Cardinality(CompletedNames)
NumDeclared == Cardinality(AgentNames)
\* What a redraw in this state shows, and the time since the run started.
Bar == get_progress_bar(stages, start_time, now)
Elapsed == now - start_time
Max0(x) == IF x < 0 THEN 0 ELSE x

\* The display's progress percentage is 100 * COMPLETED agents / declared
\* agents, whatever the other agents' and the stages' statuses are.
DisplayFractionCountsCompleted ==
    refreshed => RatEq(Bar.progress_pct, Rat(NumCompleted * 100, NumDeclared))

\* C12: the remaining-time estimate is max(0, elapsed / fraction - elapsed)
\* when the completion fraction c/n is positive, never negative, 0 when every
\* agent is completed, and unknown (no number) when the fraction is 0.
C12_RemainingEstimate ==
    refreshed =>
        /\ NumCompleted > 0
              => /\ IsSome(Bar.remaining)
                 /\ RatEq(Val(Bar.remaining),
                          Rat(Max0(Elapsed * NumDeclared - Elapsed * NumCompleted), NumCompleted))
                 /\ ~RatLess(Val(Bar.remaining), Rat(0, 1))
        /\ NumCompleted = NumDeclared => RatEq(Val(Bar.remaining), Rat(0, 1))
        /\ NumCompleted = 0 => IsNone(Bar.remaining)

\* A redraw one second into the run with half of the agents completed shows
\* one second remaining.
C12_Witness ==
    /\ refreshed /\ lastOp.op = "update_stage"
    /\ Elapsed = 1 /\ NumCompleted = 5
    /\ RatEq(Val(Bar.remaining), Rat(1, 1))

\* A redraw one second into the run with every agent completed shows 0.
C12_WitnessAllCompleted ==
    /\ refreshed /\ lastOp.op = "update_stage"
    /\ Elapsed = 1 /\ NumCompleted = NumDeclared
    /\ RatEq(Val(Bar.remaining), Rat(0, 1))

\* The declared agents the monitor holds completed, and what it showed.
MonitorCompletedDeclared == Cardinality({a \in AgentNames : is_agent_completed(monitor, a)})
Shown == Val(monitor.shown)

\* C11: the reported completion fraction is the number of completed declared
\* agents over the number of declared agents, in the display's progress bar
\* and in the monitor's overall progress alike.
C11_ReportedFraction ==
    /\ DisplayFractionCountsCompleted
    /\ IsSome(monitor.shown) =>
          RatEq(Shown.overall.progress_pct, Rat(MonitorCompletedDeclared * 100, NumDeclared))

\* The fields of a stage that are its own, and the agents of all stages.
StageFields(stgs) ==
    [k \in StageKeys |-> <<stgs[k].status, stgs[k].start_time, stgs[k].end_time>>]
AgentsOf(stgs) == [k \in StageKeys |-> stgs[k].agents]

\* C19: an agent operation changes no stage's status, start_time or end_time
\* and not the current stage; update_stage changes no field of any agent.
C19_StageAgentIndependent ==
    [][/\ lastOp'.op \in AgentOps =>
            /\ StageFields(stages') = StageFields(stages)
            /\ current_stage' = current_stage
       /\ lastOp'.op = "update_stage" => AgentsOf(stages') = AgentsOf(stages)]_vars

\* The stage "intent" has just been reported completed while it was active,
\* with one of its agents active and another still pending.
C19_Witness ==
    /\ lastOp = Op("update_stage", "intent", ACTIVE)
    /\ stages["intent"].status = COMPLETED
    /\ IsSome(stages["intent"].end_time)
    /\ AgentOf(stages, "intent-cc").status = ACTIVE
    /\ AgentOf(stages, "intent-gpt5").status = PENDING

\* C20: every FAILED agent carries a non-empty message.
C20_FailedHasMessage ==
    \A n \in AgentNames :
        AgentOf(stages, n).status = FAILED => AgentOf(stages, n).status_message # ""

\* C17: starting a run while the manager holds a display fails with
\* AlreadyStarted and leaves that display and everything it recorded in place.
C17_AlreadyStarted ==
    [][lastOp'.op = "start_pipeline_display" /\ display =>
          /\ result' = "AlreadyStarted"
          /\ display'
          /\ model' = model
          /\ start_time' = start_time]_vars

\* C18: a finish call after the first leaves the outcome and the completion
\* time as the first call gave them.
C18_FinishIdempotent ==
    [][lastOp'.op = "pipeline_completed" /\ IsSome(banner) => banner' = banner]_vars

\* A thread is redrawing: it reads the model to print it.
Reading(t) == pc[t].at = "refresh"
\* A thread is printing to the terminal.
Printing(t) == pc[t].at \in {"refresh", "print"}
View == get_stage_display(stages, current_stage)

\* C13: a redraw never reads an agent that has end_time or duration set
\* while its status is PENDING, ACTIVE or WAITING.
C13_NoTornRead ==
    \A t \in Threads :
        Reading(t) =>
            /\ \A n \in AgentNames :
                  AgentOf(stages, n).status \notin Terminal =>
                      /\ IsNone(AgentOf(stages, n).end_time)
                      /\ IsNone(AgentOf(stages, n).duration)
            /\ \A i \in DOMAIN View :
                  View[i].status_text \notin Terminal => IsNone(View[i].duration_text)

\* C14: every step that writes an agent, a stage or current_stage is taken
\* by a thread that holds the display lock.
C14_WritesUnderLock ==
    [][model' # model => \E t \in Threads : pc'[t] # pc[t] /\ lock = Some(t)]_vars

\* C15: a thread that is printing does not hold the display lock.
C15_NoOutputUnderLock ==
    \A t \in Threads : Printing(t) => lock # Some(t)

\* C16: a thread never waits for the lock it holds, the lock is held only
\* by a thread inside an operation, and under fair scheduling every
\* operation a thread has entered returns.
C16_EveryCallReturns ==
    /\ [](\A t \in Threads :
            /\ pc[t].at = "acquire" => lock # Some(t)
            /\ lock = Some(t) => pc[t].at \in {"body", "refresh", "print", "release"})
    /\ \A t \in Threads : (pc[t].at # "idle") ~> (pc[t] = Idle)

\* One thread waits for the lock while the other redraws with it.
C16_Witness ==
    /\ pc["t1"].at = "acquire"
    /\ pc["t1"].op = "pipeline_completed"
    /\ lock = Some("t2")
    /\ pc["t2"].at = "refresh"
    /\ pc["t2"].op = "agent_completed"

\* What a redraw prints in the present state.
Screen == refresh_display(stages, current_stage, start_time, now)
ActiveNames == {n \in AgentNames : AgentOf(stages, n).status = ACTIVE}

\* C22: a redraw prints header, stage overview with an indicator for every
\* declared stage, detail of the current stage, progress bar, and the
\* current-activity caption when there is one, in this order.
C22_SectionsInOrder ==
    refreshed =>
        /\ Screen.order \in
              {<<"header", "stage_overview", "stage_display", "progress_bar">>,
               <<"header", "stage_overview", "stage_display", "progress_bar", "current_activity">>}
        /\ Len(get_stage_overview(stages)) = Len(StageOrder)

\* C23: a redraw shows a caption exactly when some agent is ACTIVE, and the
\* caption names an ACTIVE agent with that agent's status message.
C23_CaptionWhenActive ==
    refreshed =>
        /\ ActiveNames # {} <=> IsSome(Screen.current_activity)
        /\ IsSome(Screen.current_activity) =>
              /\ Val(Screen.current_activity).name \in ActiveNames
              /\ Val(Screen.current_activity).message =
                    AgentOf(stages, Val(Screen.current_activity).name).status_message

\* C25: a stage that is COMPLETED or FAILED has its end_time set.
C25_TerminalStageHasEnd ==
    \A k \in StageKeys : stages[k].status \in Terminal => IsSome(stages[k].end_time)

\* C26: a redraw raises no error; it shows no duration for an agent that has
\* none, no elapsed time for a stage that never started, and no remaining
\* time while no agent is completed.
C26_RenderNeverFails ==
    refreshed =>
        /\ ~Screen.raised
        /\ \A i \in DOMAIN Screen.stage_display :
              IsNone(AgentOf(stages, Screen.stage_display[i].name).duration)
                  => IsNone(Screen.stage_display[i].duration_text)
        /\ (Screen.heading.shown /\ IsNone(stages[Val(current_stage)].start_time))
              => IsNone(Screen.heading.elapsed)
        /\ NumCompleted = 0 => IsNone(Screen.progress_bar.remaining)

\* The stage "intent" was reported waiting without ever starting, its agent
\* intent-cc waits too, and nothing is completed.
C26_Witness ==
    /\ refreshed
    /\ lastOp.op = "update_stage"
    /\ current_stage = Some("intent")
    /\ stages["intent"].status = WAITING
    /\ IsNone(stages["intent"].start_time)
    /\ AgentOf(stages, "intent-cc").status = WAITING
    /\ NumCompleted = 0
    /\ Len(Screen.stage_display) = 3

\* A redraw with no current stage: no heading, no agent lines, no caption.
C26_WitnessNoStage ==
    /\ refreshed
    /\ IsNone(current_stage)
    /\ AgentOf(stages, "intent-cc").status = ACTIVE
    /\ ~Screen.heading.shown

\* C28: agent_completed with an explicit duration leaves that duration on
\* the agent.
C28_ExplicitDurationKept ==
    [][lastOp'.op = "agent_completed" /\ lastOp'.target \in AgentNames =>
          AgentOf(stages', lastOp'.target).duration = ExplicitDuration]_vars

\* C30: in the heading "Stage N/M" the number N lies between 1 and M.
C30_StageNumberInRange ==
    (refreshed /\ Screen.heading.shown) =>
        /\ 1 <= Screen.heading.stage_num
        /\ Screen.heading.stage_num <= Screen.heading.total_stages

\* C27: the header of the start-up screen and of every later redraw shows
\* the mode the display was started in, 'PIPELINE MODE ACTIVATED' for
\* pipeline-direct.
C27_ModeShown ==
    (display /\ IsSome(mode)) =>
        /\ lastOp.op = "start_pipeline_display" =>
              /\ start_screen(stages, Val(mode), start_time).header.title
                    = get_header(Val(mode), start_time).title
              /\ mode = Some("pipeline-direct") =>
                    start_screen(stages, Val(mode), start_time).header.title
                        = "PIPELINE MODE ACTIVATED (/pipeline command)"
        /\ refreshed => Screen.header.title = get_header(Val(mode), start_time).title

\* A bar of bar_length cells filled in proportion to completed/total.
BarProportional(bar, completed, total) ==
    /\ bar.filled = (bar_length * completed) \div total
    /\ 0 <= bar.filled
    /\ bar.filled <= bar_length
    /\ bar.filled + bar.unfilled = bar_length

\* C24: the progress bar of the display and of the monitor has 40 cells,
\* floor(40 * completed / total) of them filled.
C24_BarWidth ==
    /\ refreshed => BarProportional(Bar.bar, NumCompleted, NumDeclared)
    /\ IsSome(monitor.shown) =>
          BarProportional(Shown.overall.bar, Shown.overall.completed_agents,
                          Shown.overall.total_agents)

\* What the monitor polled and showed last.
ShownRaised == IsSome(monitor.shown) /\ Shown.raised
PolledOutcome(m) == m.current_state.status
TerminalOutcomes == {Some("completed"), Some("failed")}

\* C21: the loop exits only on a polled terminal outcome, and an iteration
\* that polls and renders a terminal outcome (succeeded or failed) is the
\* last: the loop exits after it.
C21_ExitsOnTerminalOutcome ==
    [][(lastOp'.op = "monitor_live" /\ monitor.at = "running") =>
          /\ monitor'.at = "exited" => PolledOutcome(monitor') \in TerminalOutcomes
          /\ (PolledOutcome(monitor') \in TerminalOutcomes /\ ~Val(monitor'.shown).raised)
                => monitor'.at = "exited"]_vars

\* C29: when the state file reports the run completed from some time on,
\* the loop ends, errors in its iterations or not.
C29_ErrorsDoNotBlockExit ==
    <>[](IsSome(monitor.file) /\ Val(monitor.file).status = Some("completed"))
        => <>(monitor.at # "running")

====
